---- MODULE Spec2Model ----
(***************************************************************************)
(* A model of submitted.py: the box codec, the convolution engine, forward *)
(* propagation, the detector, the loss, back-propagation, the weight       *)
(* gradient and the weight update of a two-layer region-proposal network.  *)
(*                                                                         *)
(* Every function of the file is pure, so the state is the call in         *)
(* progress: which function is called (op), the argument buffers the       *)
(* caller holds (args), and what the call returned (ret).  pc is "call"    *)
(* before the call and "done" after it.                                    *)
(*                                                                         *)
(* Arithmetic is exact.  A float is a number  (n/d) * e^e , kept           *)
(* normalised, which is closed under the products, quotients, np.exp and   *)
(* np.log the code applies to the inputs of the model; d = 0 encodes the   *)
(* IEEE values NaN (n = 0), +inf (n = 1) and -inf (n = -1) that numpy      *)
(* produces on a division by zero.  Floating-point rounding is not         *)
(* modelled.                                                               *)
(***************************************************************************)
EXTENDS Integers, Sequences, FiniteSets, TLC

VARIABLES pc, op, args, ret

vars == <<pc, op, args, ret>>

----------------------------------------------------------------------------
(* Exact numbers  (n/d) * e^e.                                             *)

RECURSIVE GCD(_, _)
GCD(a, b) == IF b = 0 THEN a ELSE GCD(b, a % b)

Abs(a) == IF a < 0 THEN -a ELSE a

Sign(a) == IF a < 0 THEN -1 ELSE IF a > 0 THEN 1 ELSE 0

\* The normal form of (n/d) * e^k: lowest terms, d > 0, and zero is 0/1 * e^0.
Norm(n, d, k) ==
    IF d = 0 THEN [n |-> Sign(n), d |-> 0, e |-> 0]
    ELSE IF n = 0 THEN [n |-> 0, d |-> 1, e |-> 0]
    ELSE LET g == GCD(Abs(n), Abs(d))
             s == Sign(d)
         IN  [n |-> (s * n) \div g, d |-> (s * d) \div g, e |-> k]

I(i) == Norm(i, 1, 0)
Q(n, d) == Norm(n, d, 0)

NaN == [n |-> 0, d |-> 0, e |-> 0]
IsNaN(x) == x.d = 0 /\ x.n = 0
IsInf(x) == x.d = 0 /\ x.n # 0
IsFinite(x) == x.d # 0

Neg(x) == [x EXCEPT !.n = -x.n]

\* x * y, as IEEE: NaN propagates, inf * 0 is NaN.
Mul(x, y) ==
    IF IsNaN(x) \/ IsNaN(y) THEN NaN
    ELSE IF IsInf(x) \/ IsInf(y)
         THEN Norm(Sign(x.n) * Sign(y.n), 0, 0)
    ELSE Norm(x.n * y.n, x.d * y.d, x.e + y.e)

\* x / y, as numpy's true division: 0/0 is NaN, c/0 is +-inf (a warning, no
\* exception).
Div(x, y) ==
    IF IsNaN(x) \/ IsNaN(y) THEN NaN
    ELSE IF IsInf(x) THEN (IF IsInf(y) THEN NaN
                           ELSE Norm(Sign(x.n) * (IF y.n < 0 THEN -1 ELSE 1), 0, 0))
    ELSE IF IsInf(y) THEN I(0)
    ELSE IF y.n = 0 THEN Norm(Sign(x.n), 0, 0)
    ELSE Norm(x.n * y.d, x.d * y.n, x.e - y.e)

\* x + y.  Two finite numbers add when they carry the same power of e (or one
\* of them is zero); the inputs of the model are chosen so that no other sum
\* is asked for.
Add(x, y) ==
    CASE IsNaN(x) \/ IsNaN(y) -> NaN
      [] ~IsNaN(x) /\ ~IsNaN(y) /\ IsInf(x) ->
            IF IsInf(y) /\ y.n # x.n THEN NaN ELSE x
      [] IsFinite(x) /\ IsInf(y) -> y
      [] IsFinite(x) /\ IsFinite(y) /\ x.n = 0 -> y
      [] IsFinite(x) /\ IsFinite(y) /\ x.n # 0 /\ y.n = 0 -> x
      [] IsFinite(x) /\ IsFinite(y) /\ x.n # 0 /\ y.n # 0 /\ x.e = y.e ->
            Norm(x.n * y.d + y.n * x.d, x.d * y.d, x.e)

Sub(x, y) == Add(x, Neg(y))

RECURSIVE Pow(_, _)
Pow(b, k) == IF k = 0 THEN 1 ELSE b * Pow(b, k - 1)

\* The largest exponent the comparison raises 2 and 3 to.
PowCap == 12

\* x > y for finite x, y.  With different powers of e the comparison uses
\* 2^m < e^m < 3^m (m >= 1), which decides every comparison the model makes.
Gt(x, y) ==
    LET sx == Sign(x.n)
        sy == Sign(y.n)
    IN  CASE sx # sy -> sx > sy
          [] sx = sy /\ sx = 0 -> FALSE
          [] sx = sy /\ sx # 0 /\ x.e = y.e -> x.n * y.d > y.n * x.d
          [] sx = sy /\ sx = 1 /\ x.e # y.e ->
                \* a * e^(x.e) > b * e^(y.e), a = x.n*y.d, b = y.n*x.d, both > 0
                LET a == x.n * y.d
                    b == y.n * x.d
                    m == y.e - x.e
                    c == IF Abs(m) > PowCap THEN PowCap ELSE Abs(m)
                IN  CASE m > 0 /\ a <= b * Pow(2, c) -> FALSE
                      [] m > 0 /\ a > b * Pow(2, c) /\ m <= PowCap
                               /\ a >= b * Pow(3, m) -> TRUE
                      [] m < 0 /\ a * Pow(2, c) >= b -> TRUE
                      [] m < 0 /\ a * Pow(2, c) < b /\ -m <= PowCap
                               /\ a * Pow(3, -m) <= b -> FALSE

\* np.exp on an integer argument: e^i.
Exp(x) ==
    CASE IsNaN(x) -> NaN
      [] IsFinite(x) /\ x.d = 1 /\ x.e = 0 -> [n |-> 1, d |-> 1, e |-> x.n]

\* np.log on a power of e: ln(e^k) = k.  ln(0) = -inf, ln of a negative
\* number is NaN.
Log(x) ==
    CASE IsNaN(x) -> NaN
      [] IsFinite(x) /\ x.n = 0 -> Norm(-1, 0, 0)
      [] IsFinite(x) /\ x.n < 0 -> NaN
      [] IsFinite(x) /\ x.n = x.d -> I(x.e)

----------------------------------------------------------------------------
(* Tensors.  A tensor is its shape and its entries, indexed from 0 as in   *)
(* numpy: data maps each index tuple of the shape to the entry.            *)

Vec4(a, b, c, d) == [i \in 0..3 |-> CASE i = 0 -> a [] i = 1 -> b
                                         [] i = 2 -> c [] i = 3 -> d]

----------------------------------------------------------------------------
(* The box codec.                                                          *)

rect_regression(rect_, anchor) ==
    Vec4(Div(Sub(rect_[0], anchor[0]), anchor[2]),
         Div(Sub(rect_[1], anchor[1]), anchor[3]),
         Log(Div(rect_[2], anchor[2])),
         Log(Div(rect_[3], anchor[3])))

rect_swapped(reg, anchor) ==
    Vec4(Add(Mul(reg[0], anchor[2]), anchor[0]),
         Add(Mul(reg[1], anchor[2]), anchor[1]),
         Mul(Exp(reg[2]), anchor[2]),
         Mul(Exp(reg[3]), anchor[3]))

rect(reg, anchor) ==
    Vec4(Add(Mul(reg[0], anchor[2]), anchor[0]),
         Add(Mul(reg[1], anchor[3]), anchor[1]),
         Mul(Exp(reg[2]), anchor[2]),
         Mul(Exp(reg[3]), anchor[3]))

\* Rectangle and anchor coordinates, and sizes q * e^k with q in 1..MaxSize.
MaxSize == 2
CodecXY == {I(-1), I(0), Q(1, 2)}
CodecAnchorXY == {I(0), I(1)}
CodecSizes == {Norm(q, 1, k) : q \in 1..MaxSize, k \in -1..1}

\* np.log(rect/anchor) is a number of the model when the ratio is a power of e.
LogRepresentable(x, y) == LET r == Div(x, y) IN r.n = r.d

InitCodec ==
    /\ pc = "call"
    /\ op = "rect_regression"
    /\ \E x \in CodecXY, y \in CodecXY, ax \in CodecAnchorXY, ay \in CodecAnchorXY,
          w \in CodecSizes, h \in CodecSizes, aw \in CodecSizes, ah \in CodecSizes :
            /\ LogRepresentable(w, aw)
            /\ LogRepresentable(h, ah)
            /\ args = [rect |-> Vec4(x, y, w, h), anchor |-> Vec4(ax, ay, aw, ah)]
    /\ ret = <<>>

\* reg = rect_regression(R, A)
CallRectRegression ==
    /\ pc = "call" /\ op = "rect_regression"
    /\ ret' = rect_regression(args.rect, args.anchor)
    /\ pc' = "encoded"
    /\ op' = "rect"
    /\ UNCHANGED args

\* rect(reg, A), on the regression target the first call returned
CallRect ==
    /\ pc = "encoded" /\ op = "rect"
    /\ ret' = rect(ret, args.anchor)
    /\ pc' = "done"
    /\ UNCHANGED <<op, args>>

NextCodec == CallRectRegression \/ CallRect

SpecCodec == InitCodec /\ [][NextCodec]_vars

\* C8: decoding the encoding of a rectangle R against the same anchor A
\* (positive width and height) gives R back, component by component.
C8_RoundTrip ==
    (pc = "done" /\ op = "rect") =>
        \A i \in 0..3 : ret[i] = args.rect[i]

\* A round trip that moved the rectangle off the anchor, scaled it by a power
\* of e and used an anchor that is not square.
C8_Witness ==
    /\ pc = "done" /\ op = "rect"
    /\ args.rect[0] # args.anchor[0]
    /\ args.rect[1] # args.anchor[1]
    /\ args.rect[2] # args.anchor[2]
    /\ args.anchor[2] # args.anchor[3]
    /\ ret = args.rect

----------------------------------------------------------------------------
(* The detector.                                                           *)

Range(n) == 0..(n - 1)

\* The index tuples of a tensor of the given shape.
Indices(shape) ==
    CASE Len(shape) = 2 ->
            {<<i, j>> : i \in Range(shape[1]), j \in Range(shape[2])}
      [] Len(shape) = 3 ->
            {<<i, j, k>> : i \in Range(shape[1]), j \in Range(shape[2]),
                           k \in Range(shape[3])}
      [] Len(shape) = 4 ->
            {<<i, j, k, l>> : i \in Range(shape[1]), j \in Range(shape[2]),
                              k \in Range(shape[3]), l \in Range(shape[4])}
      [] Len(shape) = 5 ->
            {<<i, j, k, l, m>> : i \in Range(shape[1]), j \in Range(shape[2]),
                                 k \in Range(shape[3]), l \in Range(shape[4]),
                                 m \in Range(shape[5])}

\* The (n1,n2,na) triples in the order the three nested loops visit them.
LoopOrder(N1, N2, NA) ==
    [f \in 1..(N1 * N2 * NA) |->
        <<(f - 1) \div (N2 * NA), ((f - 1) \div NA) % N2, (f - 1) % NA>>]

\* yhat[0:4] and anchors[n1,n2,na,:] of one triple
Row4(T, t) == [k \in 0..3 |-> T.data[<<t[1], t[2], t[3], k>>]]

\* pair_dict after the loops: each score maps to the (regression, anchor) pair
\* of the last triple visited with that score; an earlier triple with the same
\* score is overwritten.
RECURSIVE pair_dict_from(_, _, _, _, _)
pair_dict_from(Yhat, anchors, order, f, dict) ==
    IF f > Len(order) THEN dict
    ELSE LET t == order[f]
             last_element == Yhat.data[<<t[1], t[2], t[3], 4>>]
             pair == <<Row4(Yhat, t), Row4(anchors, t)>>
         IN  pair_dict_from(Yhat, anchors, order, f + 1,
                [k \in (DOMAIN dict) \cup {last_element} |->
                    IF k = last_element THEN pair ELSE dict[k]])

pair_dict_of(Yhat, anchors) ==
    pair_dict_from(Yhat, anchors,
                   LoopOrder(Yhat.shape[1], Yhat.shape[2], Yhat.shape[3]),
                   1, <<>>)

RECURSIVE sorted_ascending(_)
sorted_ascending(keys) ==
    IF keys = {} THEN <<>>
    ELSE LET least == CHOOSE k \in keys : \A j \in keys \ {k} : Gt(j, k)
         IN  <<least>> \o sorted_ascending(keys \ {least})

\* sorted(pair_dict.items(), key=lambda x: x[0], reverse=True): the keys of the
\* dictionary, highest first
RECURSIVE sorted_reverse(_)
sorted_reverse(keys) ==
    IF keys = {} THEN <<>>
    ELSE LET top == CHOOSE k \in keys : \A j \in keys \ {k} : Gt(k, j)
         IN  <<top>> \o sorted_reverse(keys \ {top})

Zero4 == Vec4(I(0), I(0), I(0), I(0))

\* detect: best_rects starts as zeros((number_to_return, 4)); row index is
\* written for the index-th of the first number_to_return keys, and a row with
\* no key left keeps its zeros.
detect(Yhat, number_to_return, anchors) ==
    LET pair_dict == pair_dict_of(Yhat, anchors)
        ranked == sorted_reverse(DOMAIN pair_dict)
        best_pairs == SubSeq(ranked, 1,
                             IF number_to_return < Len(ranked)
                             THEN number_to_return ELSE Len(ranked))
    IN  [index \in Range(number_to_return) |->
            IF index < Len(best_pairs)
            THEN rect(pair_dict[best_pairs[index + 1]][1],
                      pair_dict[best_pairs[index + 1]][2])
            ELSE Zero4]

\* The inputs: grids of four or three (cell, anchor) triples, scores
\* k/(ScoreLevels+1) for k in 1..ScoreLevels, two regression patterns and one anchor per triple.
ScoreLevels == 4
DetShapes == {<<2, 1, 2>>, <<1, 2, 2>>, <<2, 2, 1>>, <<1, 3, 1>>}
DetScores == {Q(k, ScoreLevels + 1) : k \in 1..ScoreLevels}

FlatIndex(shape, t) == (t[1] * shape[2] + t[2]) * shape[3] + t[3]

DetRegressions(shape) ==
    {[i \in Indices(<<shape[1], shape[2], shape[3], 4>>) |->
        LET f == FlatIndex(shape, i) IN
        CASE i[4] = 0 -> I(f * r)
          [] i[4] = 1 -> I(-f)
          [] i[4] = 2 -> I((f % 2) * r)
          [] i[4] = 3 -> I(r - 1)] : r \in 1..2}

DetAnchors(shape) ==
    [shape |-> <<shape[1], shape[2], shape[3], 4>>,
     data |-> [i \in Indices(<<shape[1], shape[2], shape[3], 4>>) |->
        LET f == FlatIndex(shape, i) IN
        CASE i[4] = 0 -> I(f)
          [] i[4] = 1 -> I(2 * f)
          [] i[4] = 2 -> I(f + 1)
          [] i[4] = 3 -> I(2)]]

DetYhat(shape, reg, score) ==
    [shape |-> <<shape[1], shape[2], shape[3], 5>>,
     data |-> [i \in Indices(<<shape[1], shape[2], shape[3], 5>>) |->
        IF i[4] = 4 THEN score[<<i[1], i[2], i[3]>>]
        ELSE reg[<<i[1], i[2], i[3], i[4]>>]]]

InitDetect ==
    /\ pc = "call"
    /\ op = "detect"
    /\ \E shape \in DetShapes :
         \E reg \in DetRegressions(shape),
            score \in [Indices(shape) -> DetScores],
            number_to_return \in 1..(shape[1] * shape[2] * shape[3]) :
              args = [Yhat |-> DetYhat(shape, reg, score),
                      number_to_return |-> number_to_return,
                      anchors |-> DetAnchors(shape)]
    /\ ret = <<>>

CallDetect ==
    /\ pc = "call" /\ op = "detect"
    /\ ret' = detect(args.Yhat, args.number_to_return, args.anchors)
    /\ pc' = "done"
    /\ UNCHANGED <<op, args>>

NextDetect == CallDetect

SpecDetect == InitDetect /\ [][NextDetect]_vars

Triples(Yhat) == Indices(<<Yhat.shape[1], Yhat.shape[2], Yhat.shape[3]>>)
Score(Yhat, t) == Yhat.data[<<t[1], t[2], t[3], 4>>]

\* C1: for 1 <= number_to_return <= N1*N2*NA the rows of detect's result are
\* the decodings of number_to_return pairwise distinct triples, none of which
\* scores lower than a triple left out; equal scores included.
C1_DistinctTopK ==
    (pc = "done" /\ op = "detect") =>
        \E sel \in [Range(args.number_to_return) -> Triples(args.Yhat)] :
            /\ \A i, j \in DOMAIN sel : i # j => sel[i] # sel[j]
            /\ \A i \in DOMAIN sel :
                 ret[i] = rect(Row4(args.Yhat, sel[i]), Row4(args.anchors, sel[i]))
            /\ \A i \in DOMAIN sel :
                 \A u \in Triples(args.Yhat) \ {sel[j] : j \in DOMAIN sel} :
                    ~Gt(Score(args.Yhat, u), Score(args.Yhat, sel[i]))

ScoresDistinct(Yhat) ==
    \A t, u \in Triples(Yhat) : t # u => Score(Yhat, t) # Score(Yhat, u)

\* the triple with exactly i triples scoring higher
Ranked(Yhat, i) ==
    CHOOSE t \in Triples(Yhat) :
        Cardinality({u \in Triples(Yhat) : Gt(Score(Yhat, u), Score(Yhat, t))}) = i

\* C2: with pairwise distinct scores, row i of detect's result is the decoding of
\* the triple with the (i+1)-th highest score against that triple's own anchor.
C2_DescendingOrder ==
    (pc = "done" /\ op = "detect" /\ ScoresDistinct(args.Yhat)) =>
        \A i \in Range(args.number_to_return) :
            ret[i] = rect(Row4(args.Yhat, Ranked(args.Yhat, i)),
                          Row4(args.anchors, Ranked(args.Yhat, i)))

\* A call with distinct scores that are not already in loop order and that asks
\* for at least two rectangles.
C2_Witness ==
    /\ pc = "done" /\ op = "detect"
    /\ ScoresDistinct(args.Yhat)
    /\ args.number_to_return >= 2
    /\ Ranked(args.Yhat, 0) # <<0, 0, 0>>
    /\ ret[0] = rect(Row4(args.Yhat, Ranked(args.Yhat, 0)),
                     Row4(args.anchors, Ranked(args.Yhat, 0)))
    /\ ret[1] # ret[0]

----------------------------------------------------------------------------
(* The loss.                                                               *)

safe_log_min == Exp(I(-100))

\* Y = 0 except where X > safe_log_min, where Y = np.log(X).  A comparison
\* with NaN is false.
safe_log(X) ==
    IF IsFinite(X) /\ Gt(X, safe_log_min) THEN Log(X) ELSE I(0)

\* np.linalg.norm(v)**2 of a 4-vector: the sum of the squares
NormSquared(v) ==
    Add(Add(Mul(v[0], v[0]), Mul(v[1], v[1])),
        Add(Mul(v[2], v[2]), Mul(v[3], v[3])))

\* The three accumulators of the loops over (n1,n2,na), after the first f
\* triples of the loop order.
RECURSIVE loss_sums(_, _, _, _)
loss_sums(Yhat, Y, order, f) ==
    IF f = 0 THEN [num_mse |-> I(0), den_mse |-> I(0), num_bce |-> I(0)]
    ELSE LET acc == loss_sums(Yhat, Y, order, f - 1)
             t == order[f]
             y4 == Y.data[<<t[1], t[2], t[3], 4>>]
             yhat4 == Yhat.data[<<t[1], t[2], t[3], 4>>]
             diff == [k \in 0..3 |-> Sub(Row4(Y, t)[k], Row4(Yhat, t)[k])]
         IN  [num_mse |-> Add(acc.num_mse, Mul(y4, NormSquared(diff))),
              den_mse |-> Add(acc.den_mse, y4),
              num_bce |-> Add(acc.num_bce,
                              Add(Mul(y4, safe_log(yhat4)),
                                  Mul(Sub(I(1), y4), safe_log(Sub(I(1), yhat4)))))]

\* loss: L_mse = 0.5*(num_mse/den_mse) and L_bce = -(num_bce)/den_bce, with
\* den_bce = N1*N2*NA.  Nothing tests den_mse before the division.
loss(Yhat, Y) ==
    LET N1 == Y.shape[1]
        N2 == Y.shape[2]
        NA == Y.shape[3]
        order == LoopOrder(N1, N2, NA)
        sums == loss_sums(Yhat, Y, order, Len(order))
        den_bce == N1 * N2 * NA
    IN  [L_bce |-> Div(Neg(sums.num_bce), I(den_bce)),
         L_mse |-> Mul(Q(1, 2), Div(sums.num_mse, sums.den_mse))]

\* The inputs: two (cell, anchor) triples; labels and classification outputs
\* in {0,1}; regression rows (r, -r, 2r, 0) with r in 0..MaxCoord.
MaxCoord == 1
LossShapes == {<<1, 1, 2>>, <<2, 1, 1>>}

LossTensors(shape) ==
    {[shape |-> <<shape[1], shape[2], shape[3], 5>>,
      data |-> [i \in Indices(<<shape[1], shape[2], shape[3], 5>>) |->
         LET t == <<i[1], i[2], i[3]>> IN
         CASE i[4] = 0 -> I(r[t])
           [] i[4] = 1 -> I(-r[t])
           [] i[4] = 2 -> I(2 * r[t])
           [] i[4] = 3 -> I(0)
           [] i[4] = 4 -> I(label[t])]] :
        r \in [Indices(shape) -> 0..MaxCoord], label \in [Indices(shape) -> {0, 1}]}

InitLoss ==
    /\ pc = "call"
    /\ op = "loss"
    /\ \E shape \in LossShapes :
         \E Yhat \in LossTensors(shape), Y \in LossTensors(shape) :
            args = [Yhat |-> Yhat, Y |-> Y]
    /\ ret = <<>>

CallLoss ==
    /\ pc = "call" /\ op = "loss"
    /\ ret' = loss(args.Yhat, args.Y)
    /\ pc' = "done"
    /\ UNCHANGED <<op, args>>

NextLoss == CallLoss

SpecLoss == InitLoss /\ [][NextLoss]_vars

NoPositiveTarget(Y) == \A t \in Triples(Y) : Score(Y, t) = I(0)

\* C3: with no positive target, loss returns mse_loss = 0 whatever Yhat is.
C3_NoPositiveMseZero ==
    (pc = "done" /\ op = "loss" /\ NoPositiveTarget(args.Y)) =>
        ret.L_mse = I(0)

\* C4: a prediction equal to the target (labels in {0,1}, any number of them
\* positive) has bce_loss = 0 and mse_loss = 0.
C4_PerfectPredictionZero ==
    (pc = "done" /\ op = "loss" /\ args.Yhat = args.Y) =>
        (ret.L_bce = I(0) /\ ret.L_mse = I(0))

----------------------------------------------------------------------------
(* The convolution engine.  A call that raises returns no value: its       *)
(* outcome is [err |-> the exception]; a call that returns has err "none". *)

\* The sum of f[i] over i in S
RECURSIVE Sum(_, _)
Sum(f, S) ==
    IF S = {} THEN I(0)
    ELSE LET i == CHOOSE j \in S : TRUE
         IN  Add(f[i], Sum(f, S \ {i}))

\* H_padded[a,b]: H inside the frame of `padding` rows and columns of zeros
H_padded(H, padding, a, b) ==
    IF /\ padding <= a /\ a < H.shape[1] + padding
       /\ padding <= b /\ b < H.shape[2] + padding
    THEN H.data[<<a - padding, b - padding>>]
    ELSE I(0)

\* np.inner(W[::-1,::-1].flatten(), H_padded[n1:n1+M1, n2:n2+M2].flatten())
conv2_inner(H, W, padding, n1, n2) ==
    LET M1 == W.shape[1]
        M2 == W.shape[2]
    IN  Sum([m \in Indices(<<M1, M2>>) |->
                Mul(W.data[<<M1 - 1 - m[1], M2 - 1 - m[2]>>],
                    H_padded(H, padding, n1 + m[1], n2 + m[2]))],
            Indices(<<M1, M2>>))

\* The shape np.empty gives Xi: the row count twice
conv2_alloc_shape(H, W, padding) ==
    <<H.shape[1] - W.shape[1] + 1 + 2 * padding,
      H.shape[1] - W.shape[1] + 1 + 2 * padding>>

\* The (n1,n2) the two loops visit
conv2_loop(H, W, padding) ==
    Indices(<<H.shape[1] - W.shape[1] + 1 + 2 * padding,
              H.shape[2] - W.shape[2] + 1 + 2 * padding>>)

\* The entries of Xi the loops never assign: they keep what np.empty found
\* in memory.
conv2_unassigned(H, W, padding) ==
    Indices(conv2_alloc_shape(H, W, padding)) \ conv2_loop(H, W, padding)

\* conv2, for shapes with at least one output row and column.  uninit is the
\* content of the memory np.empty returned, read only at the entries the loops
\* leave unassigned.  Xi[n1,n2] = ... with n2 past the allocated columns raises
\* IndexError.
conv2(H, W, padding, uninit) ==
    LET shape == conv2_alloc_shape(H, W, padding)
        loop == conv2_loop(H, W, padding)
    IN  IF \E i \in loop : i \notin Indices(shape)
        THEN [err |-> "IndexError"]
        ELSE [err |-> "none",
              val |-> [shape |-> shape,
                       data |-> [i \in Indices(shape) |->
                                    IF i \in loop
                                    THEN conv2_inner(H, W, padding, i[1], i[2])
                                    ELSE uninit[i]]]]

\* The inputs of conv2: images up to MaxN x MaxN, kernels up to MaxM x MaxM,
\* padding up to MaxPad; each a unit impulse at one position or the ramp
\* 1, 2, 3, ... in row-major order.
MaxN == 2
MaxM == 2
MaxPad == 1

Planes(shape) ==
    {[shape |-> shape,
      data |-> [i \in Indices(shape) |-> IF i = at THEN I(1) ELSE I(0)]] :
        at \in Indices(shape)}
    \cup {[shape |-> shape,
           data |-> [i \in Indices(shape) |-> I(i[1] * shape[2] + i[2] + 1)]]}

\* What np.empty may find in memory
Uninit == {I(0), I(7)}

InitConv2 ==
    /\ pc = "call"
    /\ op = "conv2"
    /\ \E N1 \in 1..MaxN, N2 \in 1..MaxN, M1 \in 1..MaxM, M2 \in 1..MaxM,
          padding \in 0..MaxPad :
            /\ N1 - M1 + 1 + 2 * padding >= 1
            /\ N2 - M2 + 1 + 2 * padding >= 1
            /\ \E H \in Planes(<<N1, N2>>), W \in Planes(<<M1, M2>>) :
                  args = [H |-> H, W |-> W, padding |-> padding]
    /\ ret = <<>>

CallConv2 ==
    /\ pc = "call" /\ op = "conv2"
    /\ \E uninit \in [conv2_unassigned(args.H, args.W, args.padding) -> Uninit] :
          ret' = conv2(args.H, args.W, args.padding, uninit)
    /\ pc' = "done"
    /\ UNCHANGED <<op, args>>

NextConv2 == CallConv2

SpecConv2 == InitConv2 /\ [][NextConv2]_vars

\* C5: for H (N1,N2), N1 # N2 included, W (M1,M2) and padding p >= 0 with at
\* least one output row and column, conv2 returns an array of shape exactly
\* (N1-M1+1+2p, N2-M2+1+2p) whose entry [n1,n2] is the sum over (m1,m2) of the
\* flipped kernel times the zero-padded input at [n1+m1, n2+m2]; no entry is
\* left unassigned and no index falls outside the output.
C5_Conv2ShapeAndValues ==
    (pc = "done" /\ op = "conv2") =>
        LET H == args.H
            W == args.W
            p == args.padding
            M1 == W.shape[1]
            M2 == W.shape[2]
            shape == <<H.shape[1] - M1 + 1 + 2 * p, H.shape[2] - M2 + 1 + 2 * p>>
        IN  /\ ret.err = "none"
            /\ ret.val.shape = shape
            /\ DOMAIN ret.val.data = Indices(shape)
            /\ \A n \in Indices(shape) :
                 ret.val.data[n] =
                    Sum([m \in Indices(<<M1, M2>>) |->
                            Mul(W.data[<<M1 - 1 - m[1], M2 - 1 - m[2]>>],
                                IF /\ n[1] + m[1] - p \in Range(H.shape[1])
                                   /\ n[2] + m[2] - p \in Range(H.shape[2])
                                THEN H.data[<<n[1] + m[1] - p, n[2] + m[2] - p>>]
                                ELSE I(0))],
                        Indices(<<M1, M2>>))

\* H[:,:,c] and W[:,:,c,d]
Channel(H, c) ==
    [shape |-> <<H.shape[1], H.shape[2]>>,
     data |-> [i \in Indices(<<H.shape[1], H.shape[2]>>) |-> H.data[<<i[1], i[2], c>>]]]

Kernel(W, c, d) ==
    [shape |-> <<W.shape[1], W.shape[2]>>,
     data |-> [i \in Indices(<<W.shape[1], W.shape[2]>>) |->
                  W.data[<<i[1], i[2], c, d>>]]]

\* numpy's rule for target += operand on two-dimensional arrays: each axis of
\* the operand has the target's length or length 1
Broadcastable(operand, target) ==
    /\ operand[1] = target[1] \/ operand[1] = 1
    /\ operand[2] = target[2] \/ operand[2] = 1

\* The exception the body of conv_layer's loops raises for input channel c, or
\* "none".  It depends on the shapes only, so it is the same for every d.
conv_layer_raises(H, W, padding, uninit, c) ==
    LET target == <<H.shape[1] - W.shape[1] + 1 + 2 * padding,
                    H.shape[2] - W.shape[2] + 1 + 2 * padding>>
    IN  IF c \notin Range(H.shape[3]) THEN "IndexError"
        ELSE LET r == conv2(Channel(H, c), Kernel(W, c, 0), padding, uninit)
             IN  IF r.err # "none" THEN r.err
                 ELSE IF ~Broadcastable(r.val.shape, target) THEN "ValueError"
                 ELSE "none"

\* conv_layer, for shapes with at least one output row and column.  NC is read
\* from W.shape, after H.shape: the loop over c runs over W's input channels.
conv_layer(H, W, padding, uninit) ==
    LET NC == W.shape[3]
        ND == W.shape[4]
        shape == <<H.shape[1] - W.shape[1] + 1 + 2 * padding,
                   H.shape[2] - W.shape[2] + 1 + 2 * padding, ND>>
        raised == {c \in Range(NC) : conv_layer_raises(H, W, padding, uninit, c) # "none"}
    IN  IF ND > 0 /\ raised # {}
        THEN [err |-> conv_layer_raises(H, W, padding, uninit,
                         CHOOSE c \in raised : \A b \in raised : c <= b)]
        ELSE [err |-> "none",
              val |-> [shape |-> shape,
                       data |-> [i \in Indices(shape) |->
                          Sum([c \in Range(NC) |->
                                 LET r == conv2(Channel(H, c), Kernel(W, c, i[3]),
                                                padding, uninit).val
                                 IN  r.data[<<IF r.shape[1] = 1 THEN 0 ELSE i[1],
                                              IF r.shape[2] = 1 THEN 0 ELSE i[2]>>]],
                              Range(NC))]]]

----------------------------------------------------------------------------
(* Forward propagation.                                                    *)

\* sigmoid: H = 0 except where Xi > -100, where H = 1/(1+np.exp(-Xi))
sigmoid(Xi) ==
    IF Gt(Xi, I(-100)) THEN Div(I(1), Add(I(1), Exp(Neg(Xi)))) ELSE I(0)

\* np.maximum(0, x)
Maximum0(x) == IF Gt(x, I(0)) THEN x ELSE I(0)

\* forwardprop.  D, A, K come from W2.shape, N1, N2 from X.shape and the loops
\* that fill Xi_2 read H[n1,n2,d] for n1 < N1, n2 < N2, d < D.
forwardprop(X, W1, W2, uninit) ==
    LET D == W2.shape[3]
        A == W2.shape[4]
        K == W2.shape[5]
        N1 == X.shape[1]
        N2 == X.shape[2]
        Xi_1 == conv_layer(X, W1, 1, uninit)
    IN  IF Xi_1.err # "none" THEN [err |-> Xi_1.err]
        ELSE
        LET H == [shape |-> Xi_1.val.shape,
                  data |-> [i \in Indices(Xi_1.val.shape) |-> Maximum0(Xi_1.val.data[i])]]
            reads == {<<i[1], i[2], d>> : i \in Indices(<<N1, N2, A, K>>), d \in Range(D)}
        IN  IF \E i \in reads : i \notin Indices(H.shape) THEN [err |-> "IndexError"]
            ELSE IF K < 5 THEN [err |-> "IndexError"]
            ELSE
            LET Xi_2 == [i \in Indices(<<N1, N2, A, K>>) |->
                           Sum([d \in Range(D) |->
                                   Mul(H.data[<<i[1], i[2], d>>],
                                       W2.data[<<0, 0, d, i[3], i[4]>>])],
                               Range(D))]
            IN  [err |-> "none",
                 H |-> H,
                 Y_hat |-> [shape |-> <<N1, N2, A, K>>,
                            data |-> [i \in Indices(<<N1, N2, A, K>>) |->
                                        IF i[4] = 4 THEN sigmoid(Xi_2[i])
                                        ELSE IF i[4] < 4 THEN Xi_2[i]
                                        ELSE I(0)]]]

\* The inputs of forwardprop: images up to FwdMaxN x FwdMaxN, channel counts up
\* to MaxChannels chosen independently for X, W1 (in and out) and W2, 3 x 3
\* kernels, one anchor, five outputs.  A weight of the classification output
\* is 0 or -100, so that its excitation is 0 or at most -100.
FwdMaxN == 2
MaxChannels == 2

FwdImages(shape) ==
    {[shape |-> shape,
      data |-> [i \in Indices(shape) |-> I(s * (i[1] + 2 * i[2] - i[3]))]] : s \in {1, -1}}

FwdKernels(shape) ==
    {[shape |-> shape,
      data |-> [i \in Indices(shape) |-> I(s + i[1] - i[2] + i[3] - i[4])]] : s \in {0, 1}}

FwdW2(shape) ==
    {[shape |-> shape,
      data |-> [i \in Indices(shape) |->
                  IF i[5] = 4 THEN I(-100 * ((i[3] + s) % 2))
                  ELSE I(i[5] - i[3] - s)]] : s \in {0, 1}}

InitForward ==
    /\ pc = "call"
    /\ op = "forwardprop"
    /\ \E N1 \in 1..FwdMaxN, N2 \in 1..FwdMaxN, NCX \in 1..MaxChannels,
          NC \in 1..MaxChannels, ND \in 1..MaxChannels, D \in 1..MaxChannels :
         \E X \in FwdImages(<<N1, N2, NCX>>), W1 \in FwdKernels(<<3, 3, NC, ND>>),
            W2 \in FwdW2(<<1, 1, D, 1, 5>>) :
              args = [X |-> X, W1 |-> W1, W2 |-> W2]
    /\ ret = <<>>

CallForwardprop ==
    /\ pc = "call" /\ op = "forwardprop"
    /\ \E uninit \in [conv2_unassigned(Channel(args.X, 0), Kernel(args.W1, 0, 0), 1)
                        -> Uninit] :
          ret' = forwardprop(args.X, args.W1, args.W2, uninit)
    /\ pc' = "done"
    /\ UNCHANGED <<op, args>>

NextForward == CallForwardprop

SpecForward == InitForward /\ [][NextForward]_vars

\* C7: forwardprop fails with an error, and returns no result, whenever the
\* channel count of X differs from the input-channel count of W1 or the
\* output-channel count of W1 differs from the hidden-channel count of W2.
C7_ShapeMismatchFails ==
    (/\ pc = "done" /\ op = "forwardprop"
     /\ \/ args.X.shape[3] # args.W1.shape[3]
        \/ args.W1.shape[4] # args.W2.shape[3]) =>
        ret.err # "none"

----------------------------------------------------------------------------
(* The weight gradient.                                                    *)

\* weight_gradient: dW1[m1,m2,nc,nd] sums GradXi1[n1-(m1-1),n2-(m2-1),nd] *
\* X[n1,n2,nc] over the (n1,n2) whose shifted index is inside the image;
\* dW2[0,0,nd,na,ny] sums GradXi2[n1,n2,na,ny] * H[n1,n2,nd].
weight_gradient(X, H, GradXi1, GradXi2, M1, M2) ==
    LET N1 == X.shape[1]
        N2 == X.shape[2]
        NC == X.shape[3]
        ND == H.shape[3]
        NA == GradXi2.shape[3]
        NY == GradXi2.shape[4]
    IN  [dW1 |-> [shape |-> <<M1, M2, NC, ND>>,
                  data |-> [i \in Indices(<<M1, M2, NC, ND>>) |->
                     LET inside == {n \in Indices(<<N1, N2>>) :
                                      /\ n[1] - (i[1] - 1) >= 0 /\ n[2] - (i[2] - 1) >= 0
                                      /\ n[1] - (i[1] - 1) < N1 /\ n[2] - (i[2] - 1) < N2}
                     IN  Sum([n \in inside |->
                                Mul(GradXi1.data[<<n[1] - (i[1] - 1), n[2] - (i[2] - 1), i[4]>>],
                                    X.data[<<n[1], n[2], i[3]>>])],
                             inside)]],
         dW2 |-> [shape |-> <<1, 1, ND, NA, NY>>,
                  data |-> [i \in Indices(<<1, 1, ND, NA, NY>>) |->
                     Sum([n \in Indices(<<N1, N2>>) |->
                            Mul(GradXi2.data[<<n[1], n[2], i[4], i[5]>>],
                                H.data[<<n[1], n[2], i[3]>>])],
                         Indices(<<N1, N2>>))]]]

\* The inputs of weight_gradient: square and oblong images up to GradMaxN x
\* GradMaxN, one or two channels in and out, M1 = M2 = 3; X and GradXi1 are a
\* unit impulse or a ramp, H and GradXi2 a ramp.
GradMaxN == 2

Impulses(shape) ==
    {[shape |-> shape,
      data |-> [i \in Indices(shape) |-> IF i = at THEN I(1) ELSE I(0)]] :
        at \in Indices(shape)}

Ramp(shape, s) ==
    [shape |-> shape,
     data |-> [i \in Indices(shape) |->
        I(s + i[1] + 2 * i[2] + 3 * i[3] + (IF Len(shape) > 3 THEN i[4] ELSE 0)
            + (IF Len(shape) > 4 THEN i[5] ELSE 0))]]

InitGradient ==
    /\ pc = "call"
    /\ op = "weight_gradient"
    /\ \E N1 \in 1..GradMaxN, N2 \in 1..GradMaxN, NC \in 1..2, ND \in 1..2 :
         \E X \in Impulses(<<N1, N2, NC>>) \cup {Ramp(<<N1, N2, NC>>, 1)},
            GradXi1 \in Impulses(<<N1, N2, ND>>) \cup {Ramp(<<N1, N2, ND>>, -1)} :
              args = [X |-> X, H |-> Ramp(<<N1, N2, ND>>, 0), GradXi1 |-> GradXi1,
                      GradXi2 |-> Ramp(<<N1, N2, 1, 5>>, -2), M1 |-> 3, M2 |-> 3]
    /\ ret = <<>>

CallWeightGradient ==
    /\ pc = "call" /\ op = "weight_gradient"
    /\ ret' = weight_gradient(args.X, args.H, args.GradXi1, args.GradXi2,
                              args.M1, args.M2)
    /\ pc' = "done"
    /\ UNCHANGED <<op, args>>

NextGradient == CallWeightGradient

SpecGradient == InitGradient /\ [][NextGradient]_vars

\* The kernel that is 1 at [m1,m2,c,d] and 0 elsewhere: conv_layer is linear
\* in W, so conv_layer(X, UnitKernel, 1)[n1,n2,d] is the coefficient with which
\* W1[m1,m2,c,d] enters conv_layer(X, W1, 1)[n1,n2,d].
UnitKernel(shape, at) ==
    [shape |-> shape,
     data |-> [i \in Indices(shape) |-> IF i = at THEN I(1) ELSE I(0)]]

\* C6: for M1 = M2 = 3, dW1[m1,m2,c,d] is the sum over (n1,n2) of
\* GradXi1[n1,n2,d] times the coefficient of W1[m1,m2,c,d] in
\* conv_layer(X, W1, 1)[n1,n2,d], wherever conv_layer returns.
C6_dW1IsDerivative ==
    (pc = "done" /\ op = "weight_gradient") =>
        LET X == args.X
            shape == ret.dW1.shape
        IN  \A i \in Indices(shape) :
            \A uninit \in [conv2_unassigned(Channel(X, 0),
                                Kernel(UnitKernel(shape, i), 0, 0), 1) -> Uninit] :
              LET Xi == conv_layer(X, UnitKernel(shape, i), 1, uninit)
              IN  Xi.err = "none" =>
                    ret.dW1.data[i] =
                        Sum([n \in Indices(<<X.shape[1], X.shape[2]>>) |->
                                Mul(args.GradXi1.data[<<n[1], n[2], i[4]>>],
                                    Xi.val.data[<<n[1], n[2], i[4]>>])],
                            Indices(<<X.shape[1], X.shape[2]>>))

----------------------------------------------------------------------------
(* Back-propagation.                                                       *)

relu_gate_nonnegative(h) == ~Gt(I(0), h)

\* if H[n1,n2,nd] > 0
relu_gate(h) == Gt(h, I(0))

\* backprop: GradXi2 = Yhat - Y; GradXi1 starts as zeros and, where the gate is
\* open, is np.sum(GradXi2[n1,n2,:,:] * W2[0,0,nd,:,:]).
backprop(Y, Yhat, H, W2) ==
    LET N1 == H.shape[1]
        N2 == H.shape[2]
        ND == H.shape[3]
        NA == Y.shape[3]
        NY == Y.shape[4]
        GradXi2 == [shape |-> Yhat.shape,
                    data |-> [i \in Indices(Yhat.shape) |->
                                Sub(Yhat.data[i], Y.data[i])]]
    IN  [GradXi1 |->
            [shape |-> <<N1, N2, ND>>,
             data |-> [i \in Indices(<<N1, N2, ND>>) |->
                IF relu_gate(H.data[i])
                THEN Sum([j \in Indices(<<NA, NY>>) |->
                             Mul(GradXi2.data[<<i[1], i[2], j[1], j[2]>>],
                                 W2.data[<<0, 0, i[3], j[1], j[2]>>])],
                         Indices(<<NA, NY>>))
                ELSE I(0)]],
         GradXi2 |-> GradXi2]

\* The inputs of backprop: BpMaxN1 x 1 images at most, one or two hidden
\* channels and anchors; every hidden activation is -1, 0 or 1; targets carry
\* labels 0/1, outputs carry scores 0, 1/2 or 1.
BpMaxN1 == 2

BpTargets(shape) ==
    {[shape |-> shape,
      data |-> [i \in Indices(shape) |->
                  IF i[4] = 4 THEN I((i[1] + i[3] + s) % 2)
                  ELSE I(i[4] - s * i[3])]] : s \in {0, 1}}

BpOutputs(shape) ==
    {[shape |-> shape,
      data |-> [i \in Indices(shape) |->
                  IF i[4] = 4 THEN Q((i[1] + i[3] + s) % 3, 2)
                  ELSE I(s + i[1] - i[4])]] : s \in {0, 1}}

BpW2(shape) ==
    {[shape |-> shape,
      data |-> [i \in Indices(shape) |-> I(s * (1 + i[3]) + i[4] - i[5])]] :
        s \in {1, -1}}

InitBackprop ==
    /\ pc = "call"
    /\ op = "backprop"
    /\ \E N1 \in 1..BpMaxN1, ND \in 1..2, NA \in 1..2 :
         \E Y \in BpTargets(<<N1, 1, NA, 5>>), Yhat \in BpOutputs(<<N1, 1, NA, 5>>),
            W2 \in BpW2(<<1, 1, ND, NA, 5>>),
            h \in [Indices(<<N1, 1, ND>>) -> {-1, 0, 1}] :
              args = [Y |-> Y, Yhat |-> Yhat,
                      H |-> [shape |-> <<N1, 1, ND>>,
                             data |-> [i \in Indices(<<N1, 1, ND>>) |-> I(h[i])]],
                      W2 |-> W2]
    /\ ret = <<>>

CallBackprop ==
    /\ pc = "call" /\ op = "backprop"
    /\ ret' = backprop(args.Y, args.Yhat, args.H, args.W2)
    /\ pc' = "done"
    /\ UNCHANGED <<op, args>>

NextBackprop == CallBackprop

SpecBackprop == InitBackprop /\ [][NextBackprop]_vars

\* C10: backprop returns GradXi2 = Yhat - Y elementwise, and
\* GradXi1[n1,n2,d] = 0 where H[n1,n2,d] <= 0 and otherwise the sum over all
\* anchors a and outputs k of GradXi2[n1,n2,a,k] * W2[0,0,d,a,k].
C10_BackpropGradients ==
    (pc = "done" /\ op = "backprop") =>
        /\ ret.GradXi2.shape = args.Yhat.shape
        /\ \A i \in Indices(args.Yhat.shape) :
             Add(ret.GradXi2.data[i], args.Y.data[i]) = args.Yhat.data[i]
        /\ ret.GradXi1.shape = args.H.shape
        /\ \A i \in Indices(args.H.shape) :
             IF args.H.data[i].n <= 0
             THEN ret.GradXi1.data[i].n = 0
             ELSE ret.GradXi1.data[i] =
                    Sum([a \in Range(args.Y.shape[3]) |->
                            Sum([k \in Range(args.Y.shape[4]) |->
                                    Mul(ret.GradXi2.data[<<i[1], i[2], a, k>>],
                                        args.W2.data[<<0, 0, i[3], a, k>>])],
                                Range(args.Y.shape[4]))],
                        Range(args.Y.shape[3]))

\* A call where one hidden unit is closed (H = 0) although the sum behind it
\* is not zero, and another is open with a non-zero gradient.
C10_Witness ==
    /\ pc = "done" /\ op = "backprop"
    /\ \E i \in Indices(args.H.shape) :
         /\ args.H.data[i] = I(0)
         /\ ret.GradXi1.data[i] = I(0)
         /\ Sum([j \in Indices(<<args.Y.shape[3], 5>>) |->
                    Mul(ret.GradXi2.data[<<i[1], i[2], j[1], j[2]>>],
                        args.W2.data[<<0, 0, i[3], j[1], j[2]>>])],
                Indices(<<args.Y.shape[3], 5>>)) # I(0)
    /\ \E i \in Indices(args.H.shape) :
         /\ args.H.data[i] = I(1)
         /\ ret.GradXi1.data[i] # I(0)

----------------------------------------------------------------------------
(* The weight update.                                                      *)

\* W - learning_rate*dW, a new array
Step(W, dW, learning_rate) ==
    [shape |-> W.shape,
     data |-> [i \in Indices(W.shape) |->
                 Sub(W.data[i], Mul(learning_rate, dW.data[i]))]]

\* W1 -= learning_rate*dW1 in place of new_W1 = W1 - learning_rate*dW1
weight_update_in_place(W1, W2, dW1, dW2, learning_rate) ==
    [new_W1 |-> Step(W1, dW1, learning_rate),
     new_W2 |-> Step(W2, dW2, learning_rate),
     W1 |-> Step(W1, dW1, learning_rate), W2 |-> W2, dW1 |-> dW1, dW2 |-> dW2]

\* weight_update: the two results, and the four argument arrays as the call
\* leaves them.  The binary - and * allocate their results, so no argument is
\* written.
weight_update(W1, W2, dW1, dW2, learning_rate) ==
    [new_W1 |-> Step(W1, dW1, learning_rate),
     new_W2 |-> Step(W2, dW2, learning_rate),
     W1 |-> W1, W2 |-> W2, dW1 |-> dW1, dW2 |-> dW2]

\* The inputs of weight_update: a 1 x 1 or 3 x 3 first layer with one channel
\* in and out, one anchor; weights and gradients are ramps; learning rates
\* k/2 for k in 0..MaxRate.
MaxRate == 3
UpdateShapes == {<<1, 1, 1, 1>>, <<3, 3, 1, 1>>, <<1, 1, 2, 1>>}

InitUpdate ==
    /\ pc = "call"
    /\ op = "weight_update"
    /\ \E shape \in UpdateShapes, k \in 0..MaxRate,
          s1 \in -1..1, s2 \in -1..1, g1 \in -1..1, g2 \in -1..1 :
            args = [W1 |-> Ramp(shape, s1),
                    W2 |-> Ramp(<<1, 1, shape[4], 1, 5>>, s2),
                    dW1 |-> Ramp(shape, g1),
                    dW2 |-> Ramp(<<1, 1, shape[4], 1, 5>>, g2),
                    learning_rate |-> Q(k, 2)]
    /\ ret = <<>>

CallWeightUpdate ==
    /\ pc = "call" /\ op = "weight_update"
    /\ LET r == weight_update(args.W1, args.W2, args.dW1, args.dW2,
                              args.learning_rate)
       IN  /\ ret' = [new_W1 |-> r.new_W1, new_W2 |-> r.new_W2]
           /\ args' = [args EXCEPT !.W1 = r.W1, !.W2 = r.W2,
                                   !.dW1 = r.dW1, !.dW2 = r.dW2]
    /\ pc' = "done"
    /\ UNCHANGED op

NextUpdate == CallWeightUpdate

SpecUpdate == InitUpdate /\ [][NextUpdate]_vars

\* C9: weight_update returns new_W1 = W1 - lr*dW1 and new_W2 = W2 - lr*dW2
\* elementwise; with lr = 0 the results equal W1 and W2; and W1, W2, dW1, dW2
\* hold after the call the values they held before it.
C9_WeightUpdate ==
    [][(pc = "call" /\ op = "weight_update" /\ pc' = "done") =>
        /\ ret'.new_W1.shape = args.W1.shape
        /\ ret'.new_W2.shape = args.W2.shape
        /\ \A i \in Indices(args.W1.shape) :
             Add(ret'.new_W1.data[i], Mul(args.learning_rate, args.dW1.data[i]))
                = args.W1.data[i]
        /\ \A i \in Indices(args.W2.shape) :
             Add(ret'.new_W2.data[i], Mul(args.learning_rate, args.dW2.data[i]))
                = args.W2.data[i]
        /\ (args.learning_rate = I(0) =>
                ret'.new_W1 = args.W1 /\ ret'.new_W2 = args.W2)
        /\ args'.W1 = args.W1 /\ args'.W2 = args.W2
        /\ args'.dW1 = args.dW1 /\ args'.dW2 = args.dW2]_vars

\* A finished update with a non-zero rate that moved both weight tensors.
C9_Witness ==
    /\ pc = "done" /\ op = "weight_update"
    /\ args.learning_rate = Q(1, 2)
    /\ ret.new_W1 # args.W1
    /\ ret.new_W2 # args.W2
    /\ ret.new_W1 = Step(args.W1, args.dW1, args.learning_rate)

====
